---------------------------- MODULE Spec2Model ----------------------------
(***************************************************************************)
(* Unified booking and settlement engine of Jaaga: one schedule of one     *)
(* boat owner, its bookings (Booking, BookingTicket, SeatAssignment), the  *)
(* payment transactions and the commission ledger, as the request          *)
(* handlers of Jaaga/routes/scheduling.py and the service of               *)
(* old_app/services/unified_booking.py mutate them.  Every handler runs    *)
(* in one database transaction: an action is the committed effect of one   *)
(* request.  Money is in whole MVR.                                        *)
(***************************************************************************)
EXTENDS Integers, FiniteSets, Sequences, TLC

(***************************************************************************)
(* Bounds of the model.                                                    *)
(***************************************************************************)
NumSeats == 2
MaxBookings == 2
MaxTransactions == 2

(***************************************************************************)
(* Fixed data of the modelled database.                                    *)
(***************************************************************************)
None == "none"
NoId == 0
Seats == 1..NumSeats
ScheduleId == 1
ScheduleOwner == "owner"
Agents == {"a1", "a2"}
DefaultCommissionRate == 10

Role(user) ==
    IF user \in {"owner", "owner2"} THEN "owner"
    ELSE IF user \in Agents THEN "agent"
    ELSE "public"

\* ScheduleDestination rows: d1, d2 on the schedule, d3 on another schedule.
schedule_destinations ==
    [d1 |-> [schedule_id |-> ScheduleId, sequence_order |-> 1],
     d2 |-> [schedule_id |-> ScheduleId, sequence_order |-> 2],
     d3 |-> [schedule_id |-> 2, sequence_order |-> 3]]

\* TicketType rows of the owner: 1 is active, 2 is inactive, 3 does not exist.
InitTicketTypes ==
    (1 :> [base_price |-> 100, active |-> TRUE]) @@
    (2 :> [base_price |-> 100, active |-> FALSE])

VARIABLES
    schedule,          \* Schedule row: total_seats, available_seats
    blocked,           \* seat numbers of the ScheduleSeat rows with is_blocked
    schedule_ticket_types, \* ScheduleTicketType rows of the schedule, by ticket_type_id
    ticket_types,      \* TicketType rows by id
    bookings,          \* Booking rows by id
    next_booking_id,   \* the autoincrement of bookings.id
    tickets,           \* BookingTicket rows
    seat_assignments,  \* SeatAssignment rows
    transactions,      \* PaymentTransaction rows, by insertion id
    ledger,            \* CommissionLedger rows, by insertion id
    connections,       \* OwnerAgentConnection rows of the owner, by agent_id
    app_settings,      \* AppOwnerSettings rows, by insertion id
    response,          \* the body of the last handler's response: success or error
    released,          \* seats of the booking the last request fully cancelled
    sessions,          \* the requests in flight, each in its own transaction
    tax_configurations, \* OwnerSettings.tax_configurations of the owner
    tax_profile,       \* a TaxProfile row: rounding_rule and lines
    calculation,       \* the body of the last tax calculation's response
    codes,             \* Booking.code of the stored bookings, by insertion
    generated          \* the code each request in flight has generated

vars == <<schedule, blocked, schedule_ticket_types, ticket_types, bookings,
          next_booking_id,
          tickets, seat_assignments, transactions, ledger, connections,
          app_settings, response, released, sessions,
          tax_configurations, tax_profile, calculation, codes, generated>>

taxes == <<tax_configurations, tax_profile, calculation>>
coding == <<codes, generated>>

catalog == <<blocked, schedule_ticket_types, ticket_types>>
money == <<transactions, ledger, connections, app_settings>>

(***************************************************************************)
(* Relationships of the ORM.                                               *)
(***************************************************************************)
BookingTickets(b) == {t \in tickets : t.booking_id = b}
BookingSeatAssignments(b) == {sa \in seat_assignments : sa.booking_id = b}
SeatNos(rows) == {r.seat_no : r \in rows}

Min(S) == CHOOSE x \in S : \A y \in S : x <= y
MinOf(a, b) == IF a <= b THEN a ELSE b

\* The JSON body of the response: {success: True, ...} with status 200 or 201,
\* {error: ...} with any other status.
Reply(status) == IF status \in {200, 201} THEN "success" ELSE "error"

(***************************************************************************)
(* Initial database: a published schedule created by schedule_options      *)
(* (available_seats = total_seats - blocked_count), one ScheduleTicketType *)
(* row for ticket type 1, an approved connection with agent a1 (as         *)
(* create_agent_connection makes it), none with a2, and no booking yet.    *)
(* The owner has blocked the last seat, or every seat, of the boat.        *)
(***************************************************************************)
\* The databases the model starts from: the surcharge and discount of the
\* ScheduleTicketType row, and the AppOwnerSettings rows.  schedule_options
\* inserts the row with surcharge 0 and discount 0; the second database has
\* the schedule-level modifiers of the columns set, which create_booking reads.
Databases ==
    {[blocked |-> {NumSeats}, surcharge |-> 0, discount |-> 0, settings |-> <<>>],
     [blocked |-> Seats, surcharge |-> 20, discount |-> 10,
      settings |-> <<[commission_rate |-> 5, is_active |-> TRUE]>>]}

InitCatalog ==
    /\ \E db \in Databases :
          /\ blocked = db.blocked
          /\ schedule = [total_seats |-> NumSeats,
                         available_seats |-> NumSeats - Cardinality(db.blocked)]
          /\ schedule_ticket_types =
                (1 :> [surcharge |-> db.surcharge, discount |-> db.discount,
                       channel |-> "PUBLIC", active |-> TRUE])
          /\ app_settings = db.settings
    /\ ticket_types = InitTicketTypes

InitDatabase ==
    /\ InitCatalog
    /\ bookings = <<>>
    /\ next_booking_id = 1
    /\ tickets = {}
    /\ seat_assignments = {}
    /\ transactions = <<>>
    /\ ledger = <<>>
    /\ connections = ("a1" :> [status |-> "approved", current_balance |-> 0])
    /\ response = None
    /\ released = {}

\* No tax is configured and nothing has been calculated.
NoCalculation == [type |-> None, subtotal |-> 0, total_amount |-> 0, tax |-> 0]

\* No request is generating a booking code.
InitCoding ==
    /\ codes = <<>>
    /\ generated = <<>>

InitTaxes ==
    /\ tax_configurations = [enabled |-> FALSE, taxes |-> <<>>]
    /\ tax_profile = [rounding_rule |-> "ROUND_UP", lines |-> <<>>]
    /\ calculation = NoCalculation

\* One request at a time: no request is in flight between two actions.
Init ==
    /\ InitDatabase
    /\ InitTaxes
    /\ InitCoding
    /\ sessions = <<>>

(***************************************************************************)
(* create_booking (Jaaga/routes/scheduling.py)                             *)
(***************************************************************************)
\* The route checks without the comparison of the sequence orders.
route_error_unordered(data) ==
    IF data.pickup = None \/ data.dropoff = None THEN 400
    ELSE IF data.pickup \notin DOMAIN schedule_destinations
            \/ data.dropoff \notin DOMAIN schedule_destinations THEN 400
    ELSE IF schedule_destinations[data.pickup].schedule_id # ScheduleId
            \/ schedule_destinations[data.dropoff].schedule_id # ScheduleId THEN 400
    ELSE 0

\* The route checks: both destinations given, existing, of the schedule, and
\* the pickup before the dropoff.
route_error(data) ==
    IF data.pickup = None \/ data.dropoff = None THEN 400
    ELSE IF data.pickup \notin DOMAIN schedule_destinations
            \/ data.dropoff \notin DOMAIN schedule_destinations THEN 400
    ELSE IF schedule_destinations[data.pickup].schedule_id # ScheduleId
            \/ schedule_destinations[data.dropoff].schedule_id # ScheduleId THEN 400
    ELSE IF schedule_destinations[data.pickup].sequence_order
            >= schedule_destinations[data.dropoff].sequence_order THEN 400
    ELSE 0

\* The status of the first check that rejects the request, 0 if none does.
create_booking_error(caller, data) ==
    IF Role(caller) = "owner" /\ caller # ScheduleOwner THEN 403
    ELSE IF Role(caller) = "agent"
            /\ ~(caller \in DOMAIN connections
                 /\ connections[caller].status = "approved") THEN 403
    ELSE IF data.ticket_type_id = NoId THEN 400
    ELSE IF data.ticket_type_id \notin DOMAIN ticket_types THEN 400
    ELSE IF ~ticket_types[data.ticket_type_id].active THEN 400
    ELSE IF data.seats = {} THEN 400
    ELSE route_error(data)

\* The base price alone, without the modifiers of the schedule.
base_price_only(ticket_type_id) == ticket_types[ticket_type_id].base_price

\* base_price + surcharge - discount of the ticket type on the schedule.
unit_price(ticket_type_id) ==
    LET stt == IF ticket_type_id \in DOMAIN schedule_ticket_types
               THEN schedule_ticket_types[ticket_type_id]
               ELSE [surcharge |-> 0, discount |-> 0]
    IN ticket_types[ticket_type_id].base_price + stt.surcharge - stt.discount

schedule_discount(ticket_type_id) ==
    IF ticket_type_id \in DOMAIN schedule_ticket_types
    THEN schedule_ticket_types[ticket_type_id].discount
    ELSE 0

\* The Booking row create_booking inserts.  Its meta is a JSON object (a dict
\* of the notes and the request's source); the service stores the text of
\* one (json.dumps), a JSON string.
new_booking(caller, data) ==
    LET seat_count == Cardinality(data.seats)
        subtotal == unit_price(data.ticket_type_id) * seat_count
    IN [channel |-> data.channel,
        agent_id |-> data.agent_id,
        ticket_type_id |-> data.ticket_type_id,
        pickup_destination_id |-> data.pickup,
        dropoff_destination_id |-> data.dropoff,
        subtotal |-> subtotal,
        tax_total |-> 0,
        discount_total |-> schedule_discount(data.ticket_type_id) * seat_count,
        grand_total |-> subtotal,
        payment_status |-> "PENDING",
        fulfillment_status |->
            IF Role(caller) = "agent" /\ data.confirmation_type = "immediate"
            THEN "CONFIRMED" ELSE "UNCONFIRMED",
        finance_status |-> "UNPOSTED",
        meta |-> "object"]

new_ticket(b, data, seat_no) ==
    [id |-> <<b, seat_no>>, booking_id |-> b,
     ticket_type_id |-> data.ticket_type_id,
     fare_base_price_snapshot |-> unit_price(data.ticket_type_id),
     seat_no |-> seat_no]

new_seat_assignment(b, ticket_id, seat_no) ==
    [booking_id |-> b, ticket_id |-> ticket_id, seat_no |-> seat_no,
     travel_status |-> "ACTIVE"]

\* A null in the seat list: the SeatAssignment row with seat_no NULL violates
\* the NOT NULL constraint when it is flushed, after the booking and its
\* tickets were.
NoSeat == 0
integrity_error(data) == NoSeat \in data.seats

\* Rows that stay as they were flushed, whatever the transaction's end.
without_rollback(before, flushed, failed) == flushed

\* The rows of a table after the transaction: those flushed if it commits,
\* those before it if it is rolled back.
after_transaction(before, flushed, failed) == IF failed THEN before ELSE flushed

CreateBookingWithin(limit, caller, data) ==
    /\ next_booking_id <= limit
    /\ released' = {}
    /\ UNCHANGED <<sessions, taxes, coding>>
    /\ IF create_booking_error(caller, data) # 0
       THEN /\ response' = Reply(create_booking_error(caller, data))
            /\ UNCHANGED <<schedule, catalog, bookings, next_booking_id, tickets,
                           seat_assignments, money>>
       ELSE LET b == next_booking_id
                failed == integrity_error(data)
            IN
            /\ bookings' = after_transaction(bookings,
                  bookings @@ (b :> new_booking(caller, data)), failed)
            /\ next_booking_id' = after_transaction(b, b + 1, failed)
            /\ tickets' = after_transaction(tickets,
                  tickets \cup {new_ticket(b, data, s) : s \in data.seats}, failed)
            /\ seat_assignments' = after_transaction(seat_assignments,
                  seat_assignments \cup
                     {new_seat_assignment(b, <<b, s>>, s) : s \in data.seats}, failed)
            /\ response' = Reply(IF failed THEN 500 ELSE 200)
            /\ UNCHANGED <<schedule, catalog, money>>

CreateBooking(caller, data) == CreateBookingWithin(MaxBookings, caller, data)

(***************************************************************************)
(* The requests of the model.  A request asks for the first n seats of the *)
(* boat, so that any two requests overlap.  Every channel and agent_id is  *)
(* sent by the owner and by a public user (the handler takes both fields   *)
(* from the request; the public user sends channel AGENT with no agent),   *)
(* the approved agent books for itself, and one request stands for each    *)
(* input a check rejects.                                                  *)
(***************************************************************************)
ChannelAgents ==
    {<<"PUBLIC", None>>, <<"OWNER", None>>, <<"AGENT", "a1">>, <<"AGENT", "a2">>}

SeatSets == {1..n : n \in 1..NumSeats}

booking_request(ca, seats, tt, pickup, dropoff, conf) ==
    [channel |-> ca[1], agent_id |-> ca[2], seats |-> seats,
     ticket_type_id |-> tt, pickup |-> pickup, dropoff |-> dropoff,
     confirmation_type |-> conf]

ValidRequests ==
    {booking_request(ca, seats, 1, "d1", "d2", "manual") :
        ca \in ChannelAgents, seats \in SeatSets}

RejectedRequests ==
    {booking_request(<<"PUBLIC", None>>, {1}, tt, "d1", "d2", "manual") :
        tt \in {NoId, 2, 3}}
    \cup {booking_request(<<"PUBLIC", None>>, {}, 1, "d1", "d2", "manual")}
    \cup {booking_request(<<"PUBLIC", None>>, {1, NoSeat}, 1, "d1", "d2", "manual")}
    \cup {booking_request(<<"PUBLIC", None>>, {1}, 1, r[1], r[2], "manual") :
            r \in {<<None, "d2">>, <<"d1", "d9">>, <<"d1", "d3">>, <<"d2", "d1">>}}

CallerRequests ==
    ({"owner"} \X ValidRequests)
    \cup ({"pub"} \X RejectedRequests)
    \cup ({"pub"} \X {booking_request(<<"AGENT", None>>, {1}, 1, "d1", "d2", "manual")})
    \cup ({"a1"} \X {booking_request(<<"AGENT", "a1">>, {1}, 1, "d1", "d2", "immediate")})
    \cup ({"a2", "owner2"} \X {booking_request(<<"PUBLIC", None>>, {1}, 1, "d1", "d2", "manual")})

(***************************************************************************)
(* cancel_booking (Jaaga/routes/scheduling.py)                             *)
(***************************************************************************)
without_booking(b) == [x \in DOMAIN bookings \ {b} |-> bookings[x]]

\* The entries of the request's seat list that the booking holds, in the
\* order and as many times as the request lists them.
valid_seats_to_remove(b, seats) ==
    SelectSeq(seats, LAMBDA s : s \in SeatNos(BookingSeatAssignments(b)))

Range(list) == {list[i] : i \in DOMAIN list}

cancel_booking_error(caller, b, seats) ==
    IF caller # ScheduleOwner THEN 403
    ELSE IF b \notin DOMAIN bookings THEN 500
    ELSE IF seats # <<>> /\ valid_seats_to_remove(b, seats) = <<>> THEN 400
    ELSE 0

released_seats(available, total, count) == MinOf(total, available + count)

\* The totals of a booking that keeps remaining_count seats: the base price of
\* the first remaining ticket's type, the stored tax and discount.
recalculated(booking, remaining_tickets, remaining_count) ==
    IF remaining_tickets = {} THEN booking
    ELSE LET first_ticket == CHOOSE t \in remaining_tickets :
                                \A u \in remaining_tickets : t.seat_no <= u.seat_no
         IN IF first_ticket.ticket_type_id \notin DOMAIN ticket_types THEN booking
            ELSE LET subtotal == ticket_types[first_ticket.ticket_type_id].base_price
                                    * remaining_count
                 IN [booking EXCEPT
                       !.subtotal = subtotal,
                       !.grand_total = subtotal + booking.tax_total
                                          - booking.discount_total]

\* The tickets of the booking when none is deleted with its seat.
all_tickets_kept(b, seats_to_remove) == BookingTickets(b)

\* The tickets of the booking that are not deleted: those on other seats.
tickets_kept(b, seats_to_remove) ==
    {t \in BookingTickets(b) : t.seat_no \notin seats_to_remove}

CancelBooking(caller, b, seats) ==
    /\ UNCHANGED <<sessions, taxes, coding>>
    /\ IF cancel_booking_error(caller, b, seats) # 0
       THEN /\ response' = Reply(cancel_booking_error(caller, b, seats))
            /\ released' = {}
            /\ UNCHANGED <<schedule, catalog, bookings, next_booking_id, tickets,
                           seat_assignments, money>>
       ELSE IF seats = <<>>
       THEN \* cancel the entire booking; the delete cascades to tickets and seats
            LET seat_count == Cardinality(BookingSeatAssignments(b)) IN
            /\ bookings' = without_booking(b)
            /\ tickets' = tickets \ BookingTickets(b)
            /\ seat_assignments' = seat_assignments \ BookingSeatAssignments(b)
            /\ schedule' = [schedule EXCEPT !.available_seats =
                   released_seats(schedule.available_seats, schedule.total_seats, seat_count)]
            /\ released' = SeatNos(BookingSeatAssignments(b))
            /\ response' = Reply(200)
            /\ UNCHANGED <<catalog, next_booking_id, money>>
       ELSE \* remove specific seats only
            LET seats_to_remove == Range(valid_seats_to_remove(b, seats))
                remaining == {sa \in BookingSeatAssignments(b) :
                                 sa.seat_no \notin seats_to_remove}
                remaining_tickets == tickets_kept(b, seats_to_remove)
                remaining_count == Cardinality(remaining)
            IN
            /\ IF remaining_count = 0
               THEN /\ bookings' = without_booking(b)
                    /\ tickets' = tickets \ BookingTickets(b)
                    /\ seat_assignments' = seat_assignments \ BookingSeatAssignments(b)
                    /\ released' = SeatNos(BookingSeatAssignments(b))
               ELSE /\ bookings' = [bookings EXCEPT ![b] =
                           recalculated(bookings[b], remaining_tickets, remaining_count)]
                    /\ tickets' = (tickets \ BookingTickets(b)) \cup remaining_tickets
                    /\ seat_assignments' =
                           (seat_assignments \ BookingSeatAssignments(b)) \cup remaining
                    /\ released' = {}
            /\ schedule' = [schedule EXCEPT !.available_seats =
                   released_seats(schedule.available_seats, schedule.total_seats,
                                  Len(valid_seats_to_remove(b, seats)))]
            /\ response' = Reply(200)
            /\ UNCHANGED <<catalog, next_booking_id, money>>

(***************************************************************************)
(* issue_ticket (Jaaga/routes/scheduling.py)                               *)
(***************************************************************************)
PaymentMethods == {"cash", "bank_transfer"}

\* The checks of issue_ticket without the one of the seat assignments.
issue_ticket_error_unseated(caller, b, payment_method) ==
    IF caller # ScheduleOwner THEN 403
    ELSE IF b \notin DOMAIN bookings THEN 500
    ELSE IF payment_method = None THEN 400
    ELSE IF payment_method \notin PaymentMethods THEN 400
    ELSE IF BookingTickets(b) = {} THEN 400
    ELSE IF \A t \in BookingTickets(b) : t.ticket_type_id \notin DOMAIN ticket_types THEN 400
    ELSE 0

issue_ticket_error(caller, b, payment_method) ==
    IF caller # ScheduleOwner THEN 403
    ELSE IF b \notin DOMAIN bookings THEN 500
    ELSE IF payment_method = None THEN 400
    ELSE IF payment_method \notin PaymentMethods THEN 400
    ELSE IF BookingSeatAssignments(b) = {} THEN 400
    ELSE IF BookingTickets(b) = {} THEN 400
    ELSE IF \A t \in BookingTickets(b) : t.ticket_type_id \notin DOMAIN ticket_types THEN 400
    ELSE 0

Last(S) == CHOOSE x \in S : \A y \in S : x >= y

active_settings(rows) == {i \in DOMAIN rows : rows[i].is_active}

\* AppOwnerSettings after the lookup: a default row is added if none is active.
settings_after_lookup(rows) ==
    IF active_settings(rows) = {}
    THEN Append(rows, [commission_rate |-> DefaultCommissionRate, is_active |-> TRUE])
    ELSE rows

commission_rate(rows) ==
    LET after == settings_after_lookup(rows)
    IN after[Min(active_settings(after))].commission_rate

\* The running balance of the newest entry the query selects, 0 if none.
app_owner_entries(entries) == {i \in DOMAIN entries : entries[i].to_app_owner}
owner_entries(entries, owner) ==
    {i \in DOMAIN entries : entries[i].from_owner_id = owner /\ ~entries[i].to_app_owner}

latest_running_balance(entries, selected) ==
    IF selected = {} THEN 0 ELSE entries[Last(selected)].running_balance

ledger_entry(transaction_id, amount, owner, to_app_owner, entry_type, balance) ==
    [transaction_id |-> transaction_id, commission_amount |-> amount,
     from_owner_id |-> owner, to_app_owner |-> to_app_owner,
     entry_type |-> entry_type, running_balance |-> balance]

\* A commission taken as a percentage of the booking's total.
commission_of_total(rows, booking) ==
    (commission_rate(rows) * booking.grand_total) \div 100

\* The commission the two entries carry: the flat rate of the settings.
commission_amount(rows, booking) == commission_rate(rows)

\* The credit of the app owner and the debit of the boat owner.
commission_entries(entries, transaction_id, owner, amount) ==
    <<ledger_entry(transaction_id, amount, owner, TRUE, "credit",
          latest_running_balance(entries, app_owner_entries(entries)) + amount),
      ledger_entry(transaction_id, amount, owner, FALSE, "debit",
          latest_running_balance(entries, owner_entries(entries, owner)) - amount)>>

\* Whether the agent accounting of the booking finds a connection row.
agent_booking(booking) == booking.channel = "AGENT" /\ booking.agent_id # None
has_connection(booking) == agent_booking(booking) /\ booking.agent_id \in DOMAIN connections

\* The agent's payable to the owner, with the connection's new balance.
agent_payable_entries(booking, transaction_id, owner, total_amount) ==
    IF has_connection(booking)
    THEN <<ledger_entry(transaction_id, total_amount, owner, FALSE, "credit",
               connections[booking.agent_id].current_balance + total_amount)>>
    ELSE <<>>

\* A ledger that holds the entries of the last issue only.
ledger_of_last_issue(entries, booking, transaction_id, owner, amount, total_amount) ==
    commission_entries(entries, transaction_id, owner, amount)
    \o agent_payable_entries(booking, transaction_id, owner, total_amount)

\* The ledger after the issue: the rows it had, then the rows added.
ledger_after_issue(entries, booking, transaction_id, owner, amount, total_amount) ==
    entries
    \o commission_entries(entries, transaction_id, owner, amount)
    \o agent_payable_entries(booking, transaction_id, owner, total_amount)

\* Connections in which agent a1 is charged for the booking, whoever made it.
connections_charging_a1(booking, total_amount) ==
    [connections EXCEPT !["a1"].current_balance = @ + total_amount]

connections_after_issue(booking, total_amount) ==
    IF has_connection(booking)
    THEN [connections EXCEPT ![booking.agent_id].current_balance = @ + total_amount]
    ELSE connections

issued(booking) ==
    [booking EXCEPT !.payment_status = "PAID", !.fulfillment_status = "CONFIRMED"]

\* The status of the response built after the commit: agent_connection.agent
\* is read of a connection that was looked up and not found.
issue_ticket_response(booking) ==
    IF agent_booking(booking) /\ ~has_connection(booking) THEN 500 ELSE 200

IssueTicket(caller, b, payment_method) ==
    /\ Len(transactions) < MaxTransactions
    /\ released' = {}
    /\ UNCHANGED <<sessions, taxes, coding>>
    /\ IF issue_ticket_error(caller, b, payment_method) # 0
       THEN /\ response' = Reply(issue_ticket_error(caller, b, payment_method))
            /\ UNCHANGED <<schedule, catalog, bookings, next_booking_id, tickets,
                           seat_assignments, money>>
       ELSE LET booking == bookings[b]
                total_amount == booking.grand_total
                transaction_id == Len(transactions) + 1
                amount == commission_amount(app_settings, booking)
            IN
            /\ app_settings' = settings_after_lookup(app_settings)
            /\ transactions' = Append(transactions,
                   [booking_id |-> b, amount |-> total_amount])
            /\ ledger' = ledger_after_issue(ledger, booking, transaction_id, caller,
                                             amount, total_amount)
            /\ connections' = connections_after_issue(booking, total_amount)
            /\ bookings' = [bookings EXCEPT ![b] = issued(booking)]
            /\ response' = Reply(issue_ticket_response(booking))
            /\ UNCHANGED <<schedule, catalog, next_booking_id, tickets, seat_assignments>>

(***************************************************************************)
(* mark_ticket_as_travelled (Jaaga/routes/scheduling.py)                   *)
(***************************************************************************)
TicketSeatAssignments(ticket_id) == {sa \in seat_assignments : sa.ticket_id = ticket_id}

\* The checks of mark_ticket_as_travelled without the one of the seat
\* assignment.
mark_travelled_error_unseated(caller, ticket_id) ==
    IF ticket_id \notin {t.id : t \in tickets} THEN 500
    ELSE IF caller # ScheduleOwner THEN 403
    ELSE 0

mark_travelled_error(caller, ticket_id) ==
    IF ticket_id \notin {t.id : t \in tickets} THEN 500
    ELSE IF caller # ScheduleOwner THEN 403
    ELSE IF TicketSeatAssignments(ticket_id) = {} THEN 404
    ELSE 0

travelled(sa) == [sa EXCEPT !.travel_status = "TRAVELLED"]

MarkTravelled(caller, ticket_id) ==
    /\ released' = {}
    /\ UNCHANGED <<sessions, taxes, coding>>
    /\ IF mark_travelled_error(caller, ticket_id) # 0
       THEN /\ response' = Reply(mark_travelled_error(caller, ticket_id))
            /\ UNCHANGED seat_assignments
       ELSE /\ seat_assignments' =
                  (seat_assignments \ TicketSeatAssignments(ticket_id))
                  \cup {travelled(sa) : sa \in TicketSeatAssignments(ticket_id)}
            /\ response' = Reply(200)
    /\ UNCHANGED <<schedule, catalog, bookings, next_booking_id, tickets, money>>

(***************************************************************************)
(* UnifiedBookingService.assign_seats (old_app/services/unified_booking.py)*)
(***************************************************************************)
AssignSeats(b, assignments) ==
    /\ released' = {}
    /\ UNCHANGED <<sessions, taxes, coding>>
    /\ IF b \notin DOMAIN bookings
       THEN /\ response' = Reply(400)
            /\ UNCHANGED seat_assignments
       ELSE /\ seat_assignments' =
                  (seat_assignments \ BookingSeatAssignments(b))
                  \cup {new_seat_assignment(b, a[1], a[2]) : a \in assignments}
            /\ response' = Reply(200)
    /\ UNCHANGED <<schedule, catalog, bookings, next_booking_id, tickets, money>>

\* The assignment lists of the model: none, or the booking's first ticket on
\* the last seat of the boat.
AssignmentLists(b) ==
    {{}} \cup (IF BookingTickets(b) = {} THEN {}
              ELSE {{<<<<b, Min(SeatNos(BookingTickets(b)))>>, NumSeats>>}})

(***************************************************************************)
(* update_ticket_types, action 'update' (Jaaga/routes/owner_settings.py)   *)
(***************************************************************************)
update_ticket_types_error(caller, id) ==
    IF Role(caller) # "owner" THEN 403
    ELSE IF id \notin DOMAIN ticket_types \/ caller # ScheduleOwner THEN 404
    ELSE 0

UpdateTicketTypes(caller, id, base_price) ==
    /\ released' = {}
    /\ UNCHANGED <<sessions, taxes, coding>>
    /\ IF update_ticket_types_error(caller, id) # 0
       THEN /\ response' = Reply(update_ticket_types_error(caller, id))
            /\ UNCHANGED ticket_types
       ELSE /\ ticket_types' = [ticket_types EXCEPT ![id].base_price = base_price]
            /\ response' = Reply(200)
    /\ UNCHANGED <<schedule, blocked, schedule_ticket_types, bookings,
                   next_booking_id, tickets, seat_assignments, money>>

\* The base prices the owner sets, and the update requests of the model.
Prices == {100, 150}

TicketTypeRequests ==
    ({"owner"} \X {1} \X Prices) \cup {<<"pub", 1, 150>>, <<"owner", 3, 150>>}

BookingIds == 1..MaxBookings

\* The requests of the other handlers: the owner's on every booking, and one
\* per rejected input.
RECURSIVE SeatList(_)
SeatList(S) == IF S = {} THEN <<>> ELSE <<Min(S)>> \o SeatList(S \ {Min(S)})

\* The seat lists of a cancel request: none (the whole booking), any seats of
\* the boat, and a list that names seat 1 twice.
SeatLists == {SeatList(S) : S \in SUBSET Seats} \cup {<<1, 1>>}

CancelRequests ==
    ({"owner"} \X BookingIds \X SeatLists) \cup {<<"pub", 1, <<>>>>}

\* Tickets are issued for the first booking.
IssueRequests ==
    ({"owner"} \X {1} \X {"cash"})
    \cup {<<"owner", 1, "bank_transfer">>, <<"owner", 1, None>>,
          <<"owner", 1, "card">>, <<"pub", 1, "cash">>}

TravelRequests ==
    ({"owner"} \X (BookingIds \X {1})) \cup {<<"pub", <<1, 1>>>>}

Next ==
    \/ \E cr \in CallerRequests : CreateBooking(cr[1], cr[2])
    \/ \E r \in CancelRequests : CancelBooking(r[1], r[2], r[3])
    \/ \E r \in IssueRequests : IssueTicket(r[1], r[2], r[3])
    \/ \E r \in TravelRequests : MarkTravelled(r[1], r[2])
    \/ \E b \in BookingIds : \E assignments \in AssignmentLists(b) :
          AssignSeats(b, assignments)

Spec == Init /\ [][Next]_vars

(***************************************************************************)
(* Rebooking: bookings are created and cancelled, up to MaxRebookings      *)
(* bookings in all, and no ticket is issued.                               *)
(***************************************************************************)
MaxRebookings == 3

RebookNext ==
    \/ \E cr \in CallerRequests : CreateBookingWithin(MaxRebookings, cr[1], cr[2])
    \/ \E b \in 1..MaxRebookings, seats \in SeatLists :
          CancelBooking(ScheduleOwner, b, seats)

RebookSpec == Init /\ [][RebookNext]_vars

(***************************************************************************)
(* Fares: bookings are created and cancelled while the owner changes the   *)
(* base price of the ticket type.                                          *)
(***************************************************************************)
FareNext ==
    \/ \E cr \in CallerRequests : CreateBooking(cr[1], cr[2])
    \/ \E r \in CancelRequests : CancelBooking(r[1], r[2], r[3])
    \/ \E r \in TicketTypeRequests : UpdateTicketTypes(r[1], r[2], r[3])

FareSpec == Init /\ [][FareNext]_vars

(***************************************************************************)
(* Two create_booking requests in flight at once.  Each runs in its own    *)
(* transaction: it validates against the committed rows and flushes its    *)
(* Booking row (which takes the next id), and its rows become visible to   *)
(* the other request when it commits.                                      *)
(***************************************************************************)
session(caller, data) ==
    [caller |-> caller, data |-> data, pc |-> "start", booking_id |-> 0,
     response |-> None]

ConcInit ==
    /\ InitDatabase
    /\ InitTaxes
    /\ InitCoding
    /\ \E c1 \in CallerRequests, c2 \in CallerRequests :
          sessions = <<session(c1[1], c1[2]), session(c2[1], c2[2])>>

BeginCreateBooking(p) ==
    /\ sessions[p].pc = "start"
    /\ LET q == sessions[p] IN
       IF create_booking_error(q.caller, q.data) # 0
       THEN /\ sessions' = [sessions EXCEPT
                   ![p].pc = "done",
                   ![p].response = Reply(create_booking_error(q.caller, q.data))]
            /\ UNCHANGED next_booking_id
       ELSE /\ sessions' = [sessions EXCEPT
                   ![p].pc = "flushed", ![p].booking_id = next_booking_id]
            /\ next_booking_id' = next_booking_id + 1
    /\ UNCHANGED <<schedule, catalog, bookings, tickets, seat_assignments, money,
                   response, released, taxes, coding>>

CommitCreateBooking(p) ==
    /\ sessions[p].pc = "flushed"
    /\ LET q == sessions[p]
           b == q.booking_id
           failed == integrity_error(q.data)
       IN /\ bookings' = after_transaction(bookings,
                bookings @@ (b :> new_booking(q.caller, q.data)), failed)
          /\ tickets' = after_transaction(tickets,
                tickets \cup {new_ticket(b, q.data, s) : s \in q.data.seats}, failed)
          /\ seat_assignments' = after_transaction(seat_assignments,
                seat_assignments \cup
                   {new_seat_assignment(b, <<b, s>>, s) : s \in q.data.seats}, failed)
          /\ sessions' = [sessions EXCEPT
                ![p].pc = "done",
                ![p].response = Reply(IF failed THEN 500 ELSE 200)]
    /\ UNCHANGED <<schedule, catalog, next_booking_id, money, response, released,
                   taxes, coding>>

ConcNext ==
    \/ \E p \in DOMAIN sessions : BeginCreateBooking(p)
    \/ \E p \in DOMAIN sessions : CommitCreateBooking(p)

ConcSpec == ConcInit /\ [][ConcNext]_vars

(***************************************************************************)
(* UnifiedBookingService.update_booking_status                             *)
(* (old_app/services/unified_booking.py): sets the named status to the     *)
(* value given, whatever the present one; confirming the fulfillment marks *)
(* the finance status POSTED (_post_booking_finance).                      *)
(***************************************************************************)
UpdateBookingStatus(b, status_type, new_status) ==
    /\ released' = {}
    /\ UNCHANGED <<sessions, taxes, coding>>
    /\ IF b \notin DOMAIN bookings
       THEN /\ response' = Reply(400)
            /\ UNCHANGED bookings
       ELSE /\ bookings' =
                  [bookings EXCEPT ![b] =
                      [@ EXCEPT
                         !.payment_status =
                             IF status_type = "payment" THEN new_status ELSE @,
                         !.fulfillment_status =
                             IF status_type = "fulfillment" THEN new_status ELSE @,
                         !.finance_status =
                             IF status_type = "fulfillment" /\ new_status = "CONFIRMED"
                             THEN "POSTED"
                             ELSE IF status_type = "finance" THEN new_status ELSE @]]
            /\ response' = Reply(200)
    /\ UNCHANGED <<schedule, catalog, next_booking_id, tickets, seat_assignments, money>>

\* The status updates of the model: on each axis its first value and a later
\* one.
StatusUpdates ==
    ({"payment"} \X {"PENDING", "PAID"})
    \cup ({"fulfillment"} \X {"UNCONFIRMED", "CONFIRMED", "CANCELLED"})
    \cup ({"finance"} \X {"UNPOSTED", "POSTED"})

(***************************************************************************)
(* The life of a booking's statuses: up to MaxStatusBookings bookings are   *)
(* created, issued, cancelled and have their statuses updated.             *)
(***************************************************************************)
MaxStatusBookings == 1

StatusNext ==
    \/ \E cr \in CallerRequests : CreateBookingWithin(MaxStatusBookings, cr[1], cr[2])
    \/ \E r \in CancelRequests : CancelBooking(r[1], r[2], r[3])
    \/ \E r \in IssueRequests : IssueTicket(r[1], r[2], r[3])
    \/ \E b \in BookingIds, u \in StatusUpdates : UpdateBookingStatus(b, u[1], u[2])

StatusSpec == Init /\ [][StatusNext]_vars

(***************************************************************************)
(* get_seat_map (Jaaga/routes/scheduling.py), as the owner of the schedule *)
(* gets it: the blocked and the booked seat numbers, each as a list.       *)
(***************************************************************************)
\* The seat numbers of seat assignment rows, one per row, in the order of the
\* rows (booking, then seat).
RECURSIVE seat_no_list(_)
seat_no_list(rows) ==
    IF rows = {} THEN <<>>
    ELSE LET first == CHOOSE r \in rows : \A q \in rows :
                         \/ r.booking_id < q.booking_id
                         \/ r.booking_id = q.booking_id /\ r.seat_no <= q.seat_no
         IN <<first.seat_no>> \o seat_no_list(rows \ {first})

\* The blocked list as it is first collected.
blocked_with_booked(blocked_seats, booked) == SeatList(blocked_seats)

\* The blocked list of the response: the blocked seats that are not booked.
blocked_not_booked(blocked_seats, booked) ==
    SelectSeq(SeatList(blocked_seats), LAMBDA seat : seat \notin Range(booked))

get_seat_map ==
    LET booked == seat_no_list(seat_assignments)
    IN [blocked |-> blocked_not_booked(blocked, booked), booked |-> booked]

(***************************************************************************)
(* OwnerSettings tax calculations (Jaaga/models/owner_settings.py) and the *)
(* preview that calls them, calculate_tax_preview                          *)
(* (Jaaga/routes/owner_settings.py).  Amounts are in hundredths of the     *)
(* currency unit, percentage rates in whole percents, flat rates in whole  *)
(* currency units; round(x, 2) is taken on the exact quotient.             *)
(***************************************************************************)
\* n / d rounded to the nearest integer, a half to the even neighbour.
round_half_even(n, d) ==
    LET q == n \div d
        r == n % d
    IN IF 2 * r < d THEN q
       ELSE IF 2 * r > d THEN q + 1
       ELSE IF q % 2 = 0 THEN q ELSE q + 1

enabled_taxes(config) == SelectSeq(config.taxes, LAMBDA tax : tax.enabled)
inclusive_taxes(config) == SelectSeq(enabled_taxes(config), LAMBDA tax : tax.inclusive)

\* The sum of the rates of the percentage taxes of a list.
RECURSIVE percentage_rates(_)
percentage_rates(list) ==
    IF list = <<>> THEN 0
    ELSE (IF Head(list).type = "percentage" THEN Head(list).rate ELSE 0)
         + percentage_rates(Tail(list))

\* The sum of the rates of the flat taxes of a list.
RECURSIVE flat_rates(_)
flat_rates(list) ==
    IF list = <<>> THEN 0
    ELSE (IF Head(list).type = "flat" THEN Head(list).rate ELSE 0)
         + flat_rates(Tail(list))

\* The inclusive percentage taxes are divided out of the total before the
\* flat inclusive taxes are subtracted.
subtotal_dividing_first(config, total_amount) ==
    IF ~config.enabled THEN total_amount
    ELSE IF inclusive_taxes(config) = <<>> THEN total_amount
    ELSE round_half_even(total_amount * 100,
                         100 + percentage_rates(inclusive_taxes(config)))
         - 100 * flat_rates(inclusive_taxes(config))

calculate_subtotal_from_total(config, total_amount) ==
    IF ~config.enabled THEN total_amount
    ELSE IF inclusive_taxes(config) = <<>> THEN total_amount
    ELSE LET subtotal == total_amount - 100 * flat_rates(inclusive_taxes(config))
             percents == percentage_rates(inclusive_taxes(config))
         IN IF \E i \in DOMAIN inclusive_taxes(config) :
                  inclusive_taxes(config)[i].type = "percentage"
            THEN round_half_even(subtotal * 100, 100 + percents)
            ELSE subtotal

calculate_total_from_subtotal(config, subtotal) ==
    IF ~config.enabled THEN subtotal
    ELSE IF enabled_taxes(config) = <<>> THEN subtotal
    ELSE IF inclusive_taxes(config) # <<>>
         THEN \* the total is overwritten: subtotal * effective_rate
              round_half_even(subtotal * (100 + percentage_rates(inclusive_taxes(config))),
                              100)
         ELSE round_half_even(
                  100 * subtotal
                  + subtotal * percentage_rates(enabled_taxes(config))
                  + 10000 * flat_rates(enabled_taxes(config)), 100)

calculate_tax_preview_error(caller, input_amount) ==
    IF Role(caller) # "owner" THEN 403
    ELSE IF caller # ScheduleOwner THEN 404
    ELSE IF input_amount <= 0 THEN 400
    ELSE 0

CalculateTaxPreview(caller, input_amount, calculation_type) ==
    /\ IF calculate_tax_preview_error(caller, input_amount) # 0
       THEN /\ response' = Reply(calculate_tax_preview_error(caller, input_amount))
            /\ calculation' = NoCalculation
       ELSE /\ response' = Reply(200)
            /\ calculation' =
                  IF calculation_type = "total"
                  THEN [type |-> "total",
                        subtotal |-> calculate_subtotal_from_total(tax_configurations,
                                                                   input_amount),
                        total_amount |-> input_amount, tax |-> 0]
                  ELSE [type |-> "subtotal",
                        subtotal |-> input_amount,
                        total_amount |-> calculate_total_from_subtotal(tax_configurations,
                                                                       input_amount),
                        tax |-> 0]
    /\ UNCHANGED <<schedule, catalog, bookings, next_booking_id, tickets,
                   seat_assignments, money, released, sessions,
                   tax_configurations, tax_profile, coding>>

\* The taxes an owner configures: a percentage or a flat tax, added to the
\* price or included in it, and a tax that is switched off.
Taxes ==
    {[enabled |-> TRUE, rate |-> 10, type |-> "percentage", inclusive |-> FALSE],
     [enabled |-> TRUE, rate |-> 8, type |-> "percentage", inclusive |-> TRUE],
     [enabled |-> TRUE, rate |-> 5, type |-> "flat", inclusive |-> FALSE],
     [enabled |-> TRUE, rate |-> 5, type |-> "flat", inclusive |-> TRUE],
     [enabled |-> FALSE, rate |-> 10, type |-> "percentage", inclusive |-> TRUE]}

MaxTaxes == 2

TaxConfigurations ==
    {[enabled |-> FALSE, taxes |-> <<>>],
     [enabled |-> FALSE,
      taxes |-> <<[enabled |-> TRUE, rate |-> 8, type |-> "percentage",
                   inclusive |-> TRUE]>>]}
    \cup {[enabled |-> TRUE, taxes |-> list] :
             list \in UNION {[1..n -> Taxes] : n \in 0..MaxTaxes}}

\* The amounts of the preview requests: none, and prices with and without a
\* fraction of the currency unit, 108.00 among them.
Amounts == {0, 999, 10000, 10800}

\* The owner asks for the total of an amount or the subtotal of an amount, and
\* for the subtotal of the total of the last answer.
PreviewRequests ==
    ({"owner"} \X Amounts \X {"subtotal", "total"})
    \cup {<<"owner", calculation.total_amount, "total">>}
    \cup {<<"pub", 10000, "subtotal">>, <<"owner2", 10000, "subtotal">>}

(***************************************************************************)
(* TaxProfile.calculate_tax (Jaaga/models/unified_booking.py).  The base   *)
(* and the result are in hundredths of the currency unit; the sum of the   *)
(* lines is kept exactly, in units of 1/Scale of a hundredth.  A percent   *)
(* value is in whole percents, a fixed value in hundredths.                *)
(***************************************************************************)
MaxLines == 2

RECURSIVE Power(_, _)
Power(x, n) == IF n = 0 THEN 1 ELSE x * Power(x, n - 1)

Scale == Power(100, MaxLines)

\* Decimal.quantize(Decimal('0.01'), rounding) of an amount that is not
\* negative.
quantize(amount, rounding) ==
    LET q == amount \div Scale
        r == amount % Scale
    IN IF rounding = "ROUND_UP" THEN (IF r = 0 THEN q ELSE q + 1)
       ELSE IF rounding = "ROUND_DOWN" THEN q
       ELSE IF 2 * r >= Scale THEN q + 1 ELSE q

\* The amount of one line, given the tax of the lines before it.
tax_amount(line, base_amount, total_tax) ==
    IF line.type = "PERCENT"
    THEN IF line.applies_to = "FARE"
         THEN (base_amount * line.value) \div 100
         ELSE ((base_amount + total_tax) * line.value) \div 100
    ELSE line.value * Scale

\* The loop over the lines: total_tax after the lines from position i on.
RECURSIVE total_tax_from(_, _, _, _)
total_tax_from(lines, i, base_amount, total_tax) ==
    IF i > Len(lines) THEN total_tax
    ELSE IF ~lines[i].active
         THEN total_tax_from(lines, i + 1, base_amount, total_tax)
         ELSE total_tax_from(lines, i + 1, base_amount,
                 total_tax + tax_amount(lines[i], base_amount, total_tax))

\* A tax in which every line is rounded before it is added.
RECURSIVE rounded_lines_from(_, _, _, _, _)
rounded_lines_from(lines, i, base_amount, total_tax, rounding) ==
    IF i > Len(lines) THEN total_tax
    ELSE IF ~lines[i].active
         THEN rounded_lines_from(lines, i + 1, base_amount, total_tax, rounding)
         ELSE rounded_lines_from(lines, i + 1, base_amount,
                 total_tax + Scale * quantize(tax_amount(lines[i], base_amount, total_tax),
                                              rounding),
                 rounding)

calculate_tax_rounding_lines(profile, base_amount) ==
    quantize(rounded_lines_from(profile.lines, 1, base_amount * Scale, 0,
                                profile.rounding_rule),
             profile.rounding_rule)

calculate_tax(profile, base_amount) ==
    quantize(total_tax_from(profile.lines, 1, base_amount * Scale, 0),
             profile.rounding_rule)

CalculateTax(base_amount) ==
    /\ calculation' = [type |-> "tax", subtotal |-> base_amount,
                       total_amount |-> base_amount + calculate_tax(tax_profile, base_amount),
                       tax |-> calculate_tax(tax_profile, base_amount)]
    /\ response' = Reply(200)
    /\ UNCHANGED <<schedule, catalog, bookings, next_booking_id, tickets,
                   seat_assignments, money, released, sessions,
                   tax_configurations, tax_profile, coding>>

\* The lines of a profile: a percentage of the fare, a percentage of the fare
\* and the tax before it, a fixed amount, and a line that is switched off.
Lines ==
    {[type |-> "PERCENT", value |-> 8, applies_to |-> "FARE", active |-> TRUE],
     [type |-> "PERCENT", value |-> 10, applies_to |-> "TOTAL", active |-> TRUE],
     [type |-> "FIXED", value |-> 3, applies_to |-> "FARE", active |-> TRUE],
     [type |-> "PERCENT", value |-> 8, applies_to |-> "FARE", active |-> FALSE]}

RoundingRules == {"ROUND_UP", "ROUND_DOWN", "ROUND_NEAREST"}

TaxProfiles ==
    {[rounding_rule |-> rule, lines |-> list] :
        rule \in RoundingRules,
        list \in UNION {[1..n -> Lines] : n \in 0..MaxLines}}

BaseAmounts == {1, 99, 150}

(***************************************************************************)
(* The tax calculations: an owner with some tax configuration and some tax *)
(* profile asks for previews and taxes.                                    *)
(***************************************************************************)
TaxInit ==
    /\ InitDatabase
    /\ InitCoding
    /\ sessions = <<>>
    /\ tax_configurations \in TaxConfigurations
    /\ tax_profile \in TaxProfiles
    /\ calculation = NoCalculation

TaxNext ==
    \/ \E r \in PreviewRequests : CalculateTaxPreview(r[1], r[2], r[3])
    \/ \E base_amount \in BaseAmounts : CalculateTax(base_amount)

TaxSpec == TaxInit /\ [][TaxNext]_vars

(***************************************************************************)
(* Booking.generate_code (Jaaga/models/unified_booking.py) and the unique  *)
(* column Booking.code: each request generates a code that no stored       *)
(* booking has, and later commits its booking; the commit of a code that   *)
(* has been stored meanwhile violates the unique constraint.               *)
(***************************************************************************)
chars ==
    <<"A", "B", "C", "D", "E", "F", "G", "H", "J", "K", "M", "N", "P", "Q", "R",
      "S", "T", "U", "V", "W", "X", "Y", "Z", "2", "3", "4", "5", "6", "7", "8", "9">>

CodeLength == 6
MaxCodes == 2

\* The codes random.choices draws in the model: six times the same symbol,
\* the first, the ninth, the first digit or the last of chars.
Codes == {[i \in 1..CodeLength |-> chars[k]] : k \in {1, 9, 24, Len(chars)}}

CodeInit ==
    /\ InitDatabase
    /\ sessions = <<>>
    /\ InitTaxes
    /\ codes = <<>>
    /\ generated = [p \in 1..MaxCodes |-> [pc |-> "start", code |-> <<>>]]

GenerateCode(p) ==
    /\ generated[p].pc = "start"
    /\ \E code \in Codes :
          /\ code \notin Range(codes)
          /\ generated' = [generated EXCEPT ![p] = [pc |-> "generated", code |-> code]]
    /\ UNCHANGED <<schedule, catalog, bookings, next_booking_id, tickets,
                   seat_assignments, money, response, released, sessions, taxes, codes>>

\* db.session.commit() of the booking: an IntegrityError if the code is taken.
CommitCode(p) ==
    /\ generated[p].pc = "generated"
    /\ IF generated[p].code \in Range(codes)
       THEN /\ response' = Reply(500)
            /\ UNCHANGED codes
       ELSE /\ response' = Reply(200)
            /\ codes' = Append(codes, generated[p].code)
    /\ generated' = [generated EXCEPT ![p].pc = "done"]
    /\ UNCHANGED <<schedule, catalog, bookings, next_booking_id, tickets,
                   seat_assignments, money, released, sessions, taxes>>

CodeNext ==
    \/ \E p \in 1..MaxCodes : GenerateCode(p)
    \/ \E p \in 1..MaxCodes : CommitCode(p)

CodeSpec == CodeInit /\ [][CodeNext]_vars

(***************************************************************************)
(* create_booking (backend/routes/unified_booking.py): a booking of the    *)
(* schedule, which is public, through UnifiedBookingService.create_booking *)
(* (old_app/services/unified_booking.py), priced by the PricingEngine      *)
(* (backend/services/pricing_engine.py); the confirmation SMS is sent      *)
(* after the service has committed.  One ticket is booked per seat.        *)
(***************************************************************************)
\* The names the module pricing_engine binds: its imports.
pricing_engine_names ==
    {"Decimal", "TicketType", "TaxProfile", "ScheduleTicketType",
     "AppOwnerSettings", "db"}

\* The ticket types with an active ScheduleTicketType row of the schedule.
enabled_types ==
    {id \in DOMAIN schedule_ticket_types : schedule_ticket_types[id].active}

validate_ticket_types(ticket_type_ids) == ticket_type_ids \subseteq enabled_types

\* base price plus the surcharge minus the discount of the schedule's row.
final_price(ticket_type_id) ==
    ticket_types[ticket_type_id].base_price
        + schedule_ticket_types[ticket_type_id].surcharge
        - schedule_ticket_types[ticket_type_id].discount

\* What calculate_booking_price raises, None if it returns.  Every exception
\* of its body is raised again as a ValueError; the name Schedule is read
\* after the ScheduleTicketType rows are.
calculate_booking_price_error(ticket_type_ids) ==
    IF enabled_types = {} THEN "No active ticket types found for this schedule"
    ELSE IF "Schedule" \notin pricing_engine_names
         THEN "name 'Schedule' is not defined"
    ELSE IF ~(ticket_type_ids \subseteq enabled_types) THEN "not enabled"
    ELSE IF ~(ticket_type_ids \subseteq DOMAIN ticket_types) THEN "not found"
    ELSE None

\* The pricing of quantity tickets of one type: the owner's channel gets 10%
\* off, and the platform fee of the active settings is added to the total.
calculate_booking_price(ticket_type_id, quantity, channel, settings) ==
    LET subtotal == final_price(ticket_type_id) * quantity
        discount_total == IF channel = "OWNER" THEN subtotal \div 10 ELSE 0
        app_fee == commission_rate(settings)
    IN [subtotal |-> subtotal, tax_total |-> 0,
        discount_total |-> discount_total,
        grand_total |-> subtotal - discount_total + app_fee]

\* The channel and the agent the route sets from the caller's role.
role_channel(caller) ==
    IF Role(caller) = "owner" THEN "OWNER"
    ELSE IF Role(caller) = "agent" THEN "AGENT"
    ELSE "PUBLIC"

role_agent_id(caller) == IF Role(caller) = "agent" THEN caller ELSE None

service_create_booking_error(data) ==
    IF ~validate_ticket_types({data.ticket_type_id})
    THEN "Invalid ticket types for this schedule"
    ELSE calculate_booking_price_error({data.ticket_type_id})

\* The Booking row the service inserts.
service_booking(caller, data, settings) ==
    LET pricing == calculate_booking_price(data.ticket_type_id,
                       Cardinality(data.seats), role_channel(caller), settings)
    IN [channel |-> role_channel(caller),
        agent_id |-> role_agent_id(caller),
        ticket_type_id |-> data.ticket_type_id,
        pickup_destination_id |-> None,
        dropoff_destination_id |-> None,
        subtotal |-> pricing.subtotal,
        tax_total |-> pricing.tax_total,
        discount_total |-> pricing.discount_total,
        grand_total |-> pricing.grand_total,
        payment_status |-> "PENDING",
        fulfillment_status |-> "UNCONFIRMED",
        finance_status |-> "UNPOSTED",
        meta |-> "string"]

service_ticket(b, data, seat_no) ==
    [id |-> <<b, seat_no>>, booking_id |-> b,
     ticket_type_id |-> data.ticket_type_id,
     fare_base_price_snapshot |-> ticket_types[data.ticket_type_id].base_price,
     seat_no |-> seat_no]

\* The route's step.  The PricingEngine of the service is constructed first
\* and commits the default settings row if no row is active.  A ValueError of
\* the service is answered 400 after the service's rollback.  Whether the SMS
\* sender fails or not, the route goes on to the 201 response: the call is
\* inside a try whose except clause only prints.
BookSchedule(caller, data, sms_fails) ==
    /\ next_booking_id <= MaxBookings
    /\ released' = {}
    /\ UNCHANGED <<sessions, taxes, coding>>
    /\ app_settings' = settings_after_lookup(app_settings)
    /\ UNCHANGED <<catalog, transactions, ledger, connections>>
    /\ IF service_create_booking_error(data) # None
       THEN /\ response' = Reply(400)
            /\ UNCHANGED <<schedule, bookings, next_booking_id, tickets,
                           seat_assignments>>
       ELSE LET b == next_booking_id
            IN
            /\ bookings' = bookings @@
                  (b :> service_booking(caller, data, app_settings'))
            /\ next_booking_id' = b + 1
            /\ tickets' = tickets \cup {service_ticket(b, data, s) : s \in data.seats}
            /\ seat_assignments' = seat_assignments \cup
                  {new_seat_assignment(b, <<b, s>>, s) : s \in data.seats \ {NoSeat}}
            /\ schedule' = [schedule EXCEPT !.available_seats =
                  IF @ - Cardinality(data.seats) > 0
                  THEN @ - Cardinality(data.seats) ELSE 0]
            /\ response' = Reply(201)

\* The bookings asked of the service: the requests of the other route, with
\* the SMS sender working or failing.
ServiceRequests == CallerRequests \X BOOLEAN

(***************************************************************************)
(* Bookings through the service next to those of the other route, and      *)
(* their cancellation.                                                     *)
(***************************************************************************)
ServiceNext ==
    \/ \E r \in ServiceRequests : BookSchedule(r[1][1], r[1][2], r[2])
    \/ \E cr \in CallerRequests : CreateBooking(cr[1], cr[2])
    \/ \E r \in CancelRequests : CancelBooking(r[1], r[2], r[3])

ServiceSpec == Init /\ [][ServiceNext]_vars

(***************************************************************************)
(* Two issue_ticket requests in flight at once.  Each runs in its own      *)
(* transaction: its queries read the rows committed when it began (and its *)
(* own), and the rows it adds and the columns it assigns are written when  *)
(* it commits.  The database starts with two bookings that create_booking  *)
(* has stored.                                                             *)
(***************************************************************************)
issue_session(caller, b, payment_method) ==
    [caller |-> caller, booking_id |-> b, payment_method |-> payment_method,
     pc |-> "start", response |-> None,
     read |-> [app_settings |-> <<>>, ledger |-> <<>>, connections |-> <<>>]]

stored_booking(b, data) ==
    [booking |-> new_booking(ScheduleOwner, data),
     tickets |-> {new_ticket(b, data, s) : s \in data.seats},
     seat_assignments |-> {new_seat_assignment(b, <<b, s>>, s) : s \in data.seats}]

IssueConcInit ==
    /\ InitCatalog
    /\ InitTaxes
    /\ InitCoding
    /\ \E d1 \in ValidRequests, d2 \in ValidRequests :
          /\ bookings = (1 :> stored_booking(1, d1).booking)
                        @@ (2 :> stored_booking(2, d2).booking)
          /\ tickets = stored_booking(1, d1).tickets \cup stored_booking(2, d2).tickets
          /\ seat_assignments = stored_booking(1, d1).seat_assignments
                                \cup stored_booking(2, d2).seat_assignments
    /\ next_booking_id = 3
    /\ transactions = <<>>
    /\ ledger = <<>>
    /\ connections = ("a1" :> [status |-> "approved", current_balance |-> 0])
    /\ response = None
    /\ released = {}
    /\ \E b \in {1, 2}, caller \in {"owner", "pub"} :
          sessions = <<issue_session("owner", 1, "cash"),
                       issue_session(caller, b, "cash")>>

\* The checks of the request and the reads of the transaction.
BeginIssueTicket(p) ==
    /\ sessions[p].pc = "start"
    /\ LET q == sessions[p]
           error == issue_ticket_error(q.caller, q.booking_id, q.payment_method)
       IN sessions' =
             IF error # 0
             THEN [sessions EXCEPT ![p].pc = "done", ![p].response = Reply(error)]
             ELSE [sessions EXCEPT
                      ![p].pc = "read",
                      ![p].read = [app_settings |-> app_settings,
                                   ledger |-> ledger,
                                   connections |-> connections]]
    /\ UNCHANGED <<schedule, catalog, bookings, next_booking_id, tickets,
                   seat_assignments, money, response, released, taxes, coding>>

\* The rows the transaction adds to the ledger, from the balances it read.
issued_entries(read, booking, transaction_id, owner, total_amount) ==
    commission_entries(read.ledger, transaction_id, owner,
                       commission_amount(read.app_settings, booking))
    \o (IF has_connection(booking)
        THEN <<ledger_entry(transaction_id, total_amount, owner, FALSE, "credit",
                  read.connections[booking.agent_id].current_balance + total_amount)>>
        ELSE <<>>)

CommitIssueTicket(p) ==
    /\ sessions[p].pc = "read"
    /\ LET q == sessions[p]
           booking == bookings[q.booking_id]
           total_amount == booking.grand_total
           transaction_id == Len(transactions) + 1
       IN /\ app_settings' =
                IF active_settings(q.read.app_settings) = {}
                THEN Append(app_settings,
                        [commission_rate |-> DefaultCommissionRate, is_active |-> TRUE])
                ELSE app_settings
          /\ transactions' = Append(transactions,
                [booking_id |-> q.booking_id, amount |-> total_amount])
          /\ ledger' = ledger \o issued_entries(q.read, booking, transaction_id,
                                                q.caller, total_amount)
          /\ connections' =
                IF has_connection(booking)
                THEN [connections EXCEPT ![booking.agent_id].current_balance =
                         q.read.connections[booking.agent_id].current_balance
                         + total_amount]
                ELSE connections
          /\ bookings' = [bookings EXCEPT ![q.booking_id] = issued(booking)]
          /\ sessions' = [sessions EXCEPT
                ![p].pc = "done",
                ![p].response = Reply(issue_ticket_response(booking))]
    /\ UNCHANGED <<schedule, catalog, next_booking_id, tickets, seat_assignments,
                   response, released, taxes, coding>>

IssueConcNext ==
    \/ \E p \in DOMAIN sessions : BeginIssueTicket(p)
    \/ \E p \in DOMAIN sessions : CommitIssueTicket(p)

IssueConcSpec == IssueConcInit /\ [][IssueConcNext]_vars

(***************************************************************************)
(* UnifiedBookingService.cancel_booking                                    *)
(* (old_app/services/unified_booking.py): marks the booking CANCELLED and  *)
(* adds the number of its tickets to available_seats, whatever the status  *)
(* was; the seat assignments stay.  json.loads of a meta that is not a     *)
(* string raises, and the exception rolls the transaction back.            *)
(***************************************************************************)
service_cancel_booking_error(b) ==
    IF b \notin DOMAIN bookings THEN "Booking not found"
    ELSE IF bookings[b].meta # "string"
         THEN "the JSON object must be str, bytes or bytearray, not dict"
    ELSE None

ServiceCancelBooking(b) ==
    /\ released' = {}
    /\ UNCHANGED <<sessions, taxes, coding>>
    /\ UNCHANGED <<catalog, next_booking_id, tickets, seat_assignments, money>>
    /\ IF service_cancel_booking_error(b) # None
       THEN /\ response' = Reply(400)
            /\ UNCHANGED <<schedule, bookings>>
       ELSE /\ bookings' = [bookings EXCEPT ![b].fulfillment_status = "CANCELLED"]
            /\ schedule' = [schedule EXCEPT !.available_seats =
                  MinOf(schedule.total_seats, @ + Cardinality(BookingTickets(b)))]
            /\ response' = Reply(200)

(***************************************************************************)
(* Cancellations: bookings are created by both routes, cancelled by the    *)
(* route and by the service, and marked cancelled by a status update.      *)
(***************************************************************************)
CancelNext ==
    \/ \E cr \in CallerRequests : CreateBooking(cr[1], cr[2])
    \/ \E r \in ServiceRequests : BookSchedule(r[1][1], r[1][2], r[2])
    \/ \E r \in CancelRequests : CancelBooking(r[1], r[2], r[3])
    \/ \E b \in BookingIds : ServiceCancelBooking(b)
    \/ \E b \in BookingIds : UpdateBookingStatus(b, "fulfillment", "CANCELLED")

CancelSpec == Init /\ [][CancelNext]_vars

(***************************************************************************)
(* schedule_options in edit mode (Jaaga/routes/scheduling.py): the owner   *)
(* saves the schedule again with the blocked seats and the ticket types of *)
(* the request.  blocked_count is the number of the blocked seats chosen   *)
(* in the step before.  The ScheduleTicketType, ScheduleDestination and    *)
(* ScheduleSeat rows are deleted and inserted anew; the destinations of    *)
(* the request are those the schedule has.                                 *)
(***************************************************************************)
edit_schedule_error(caller) ==
    IF Role(caller) # "owner" THEN 403
    ELSE IF caller # ScheduleOwner THEN 403
    ELSE 0

\* The ScheduleTicketType rows of the request: no surcharge, no discount.
edited_ticket_types(public_ticket_type_ids, agent_ticket_type_ids) ==
    [id \in public_ticket_type_ids \cup agent_ticket_type_ids |->
        [surcharge |-> 0, discount |-> 0,
         channel |-> IF id \in agent_ticket_type_ids THEN "AGENT" ELSE "PUBLIC",
         active |-> TRUE]]

EditSchedule(caller, blocked_seats, public_ticket_type_ids, agent_ticket_type_ids) ==
    /\ released' = {}
    /\ UNCHANGED <<sessions, taxes, coding>>
    /\ UNCHANGED <<ticket_types, bookings, next_booking_id, tickets,
                   seat_assignments, money>>
    /\ IF edit_schedule_error(caller) # 0
       THEN /\ response' = Reply(edit_schedule_error(caller))
            /\ UNCHANGED <<schedule, blocked, schedule_ticket_types>>
       ELSE /\ schedule' = [schedule EXCEPT !.available_seats =
                  schedule.total_seats - Cardinality(blocked_seats)]
            /\ schedule_ticket_types' =
                  edited_ticket_types(public_ticket_type_ids, agent_ticket_type_ids)
            /\ blocked' = blocked_seats
            /\ response' = Reply(200)

\* The edits of the model: any seats blocked, ticket type 1 sold to the public
\* or to agents, and the edit of another owner.
EditRequests ==
    ({"owner"} \X (SUBSET Seats) \X {<<{1}, {}>>, <<{}, {1}>>})
    \cup {<<"owner2", {}, <<{1}, {}>>>>}

EditNext ==
    \/ \E cr \in CallerRequests : CreateBooking(cr[1], cr[2])
    \/ \E r \in CancelRequests : CancelBooking(r[1], r[2], r[3])
    \/ \E r \in EditRequests : EditSchedule(r[1], r[2], r[3][1], r[3][2])

EditSpec == Init /\ [][EditNext]_vars

(***************************************************************************)
(* The claims.                                                             *)
(***************************************************************************)
\* The seat assignments that occupy a seat.
OccupyingAssignments == {sa \in seat_assignments : sa.travel_status # "CANCELLED"}
HoldersIn(rows, s) ==
    {sa.booking_id : sa \in {x \in rows : x.seat_no = s /\ x.travel_status # "CANCELLED"}}

\* A step that commits an issue_ticket, and the booking it issues.
IssueStep == Len(transactions') = Len(transactions) + 1
IssuedBooking == transactions'[Len(transactions')].booking_id
NewLedgerEntries == SubSeq(ledger', Len(ledger) + 1, Len(ledger'))
LedgerKept == SubSeq(ledger', 1, Len(ledger)) = ledger
BookingTransactions(b) == {i \in DOMAIN transactions : transactions[i].booking_id = b}
BookingLedgerEntries(b) ==
    {i \in DOMAIN ledger : ledger[i].transaction_id \in BookingTransactions(b)}

\* C1: no seat of the schedule is in more than one active seat assignment.
C1_AtMostOneAssignmentPerSeat ==
    \A sa1 \in OccupyingAssignments, sa2 \in OccupyingAssignments :
        sa1.seat_no = sa2.seat_no => sa1 = sa2

\* C2: of two concurrent createBooking requests with overlapping seats, both
\* acceptable alone, exactly one succeeds, the other fails, and available_seats
\* has dropped by the seats of the winner.
C2_ExactlyOneConcurrentWinner ==
    (/\ Len(sessions) = 2
     /\ \A p \in DOMAIN sessions :
           /\ sessions[p].pc = "done"
           /\ create_booking_error(sessions[p].caller, sessions[p].data) = 0
     /\ sessions[1].data.seats \cap sessions[2].data.seats # {})
    => \E w \in DOMAIN sessions :
          /\ sessions[w].response = "success"
          /\ sessions[3 - w].response = "error"
          /\ schedule.available_seats =
                (schedule.total_seats - Cardinality(blocked))
                - Cardinality(sessions[w].data.seats)

C4_AvailableSeatsMatchInventory ==
    schedule.available_seats =
        schedule.total_seats - Cardinality(blocked) - Cardinality(OccupyingAssignments)

\* C5: no issue_ticket commits on a booking that is already PAID: no second
\* payment transaction, no further ledger entry, no balance change.
C5_PaidBookingIsNotReissued ==
    [][\A b \in DOMAIN bookings :
          bookings[b].payment_status = "PAID"
          => ~(IssueStep /\ IssuedBooking = b)]_vars

\* C6: for the platform and for the owner, every ledger entry of the party
\* carries the running balance of the party's previous entry (0 if none) plus
\* its amount for a credit, minus it for a debit.
PreviousBalance(selected, i) ==
    LET before == {j \in selected : j < i}
    IN IF before = {} THEN 0 ELSE ledger[Last(before)].running_balance

SignedAmount(e) ==
    IF e.entry_type = "credit" THEN e.commission_amount ELSE 0 - e.commission_amount

C6_RunningBalanceChain ==
    \A selected \in {app_owner_entries(ledger), owner_entries(ledger, ScheduleOwner)} :
        \A i \in selected :
            ledger[i].running_balance =
                PreviousBalance(selected, i) + SignedAmount(ledger[i])

\* C7: an issue_ticket that commits on a non-agent booking appends exactly two
\* ledger entries of the new transaction, a credit to the platform and a debit
\* to the owner, both of the flat commission of the active settings.
ConfiguredCommission ==
    app_settings'[Min(active_settings(app_settings'))].commission_rate

C8_AgentIssuePostsPayable ==
    [][(/\ IssueStep
        /\ response' = "success"
        /\ bookings[IssuedBooking].channel = "AGENT")
       => LET booking == bookings[IssuedBooking] IN
          /\ Len(NewLedgerEntries) = 3
          /\ NewLedgerEntries[3].commission_amount = booking.grand_total
          /\ booking.agent_id \in DOMAIN connections
          /\ connections'[booking.agent_id].current_balance =
                connections[booking.agent_id].current_balance + booking.grand_total]_vars

\* C9: a booking is PAID and CONFIRMED by issuance exactly if its payment
\* transaction and its two or three ledger entries are there, and a request
\* that fails leaves no payment transaction, ledger entry, balance increment or
\* status flip behind.
IssuanceComplete(b) ==
    /\ BookingTransactions(b) # {}
    /\ Cardinality(BookingLedgerEntries(b)) >= 2 * Cardinality(BookingTransactions(b))

C9_IssueIsAtomic ==
    [][/\ \A b \in DOMAIN bookings' :
             (bookings'[b].payment_status = "PAID") <=> IssuanceComplete(b)'
       /\ response' = "error"
          => /\ transactions' = transactions
             /\ ledger' = ledger
             /\ connections' = connections
             /\ \A b \in DOMAIN bookings \cap DOMAIN bookings' :
                   /\ bookings'[b].payment_status = bookings[b].payment_status
                   /\ bookings'[b].fulfillment_status = bookings[b].fulfillment_status]_vars

\* C10: once a booking is fully cancelled, a createBooking for exactly the
\* seats it held is accepted, and after it those seats are booked by the new
\* booking only.
RebookRequest(seats) ==
    booking_request(<<"PUBLIC", None>>, seats, 1, "d1", "d2", "manual")

C10_RebookAfterCancel ==
    [][released # {}
       => /\ create_booking_error(ScheduleOwner, RebookRequest(released)) = 0
          /\ (/\ next_booking_id' = next_booking_id + 1
              /\ SeatNos({sa \in seat_assignments' :
                              sa.booking_id = next_booking_id}) = released)
             => \A s \in released :
                   HoldersIn(seat_assignments', s) = {next_booking_id}]_vars

\* C11: a partial cancellation that leaves at least one seat leaves the
\* booking with subtotal = the sum of the fare_base_price_snapshot of its
\* remaining tickets.
RECURSIVE SumOfSnapshots(_)
SumOfSnapshots(rows) ==
    IF rows = {} THEN 0
    ELSE LET t == CHOOSE x \in rows : TRUE
         IN t.fare_base_price_snapshot + SumOfSnapshots(rows \ {t})

C11_PartialCancelKeepsSnapshotPrice ==
    [][\A b \in DOMAIN bookings \cap DOMAIN bookings' :
          LET kept == {t \in tickets' : t.booking_id = b} IN
          (kept # {} /\ kept # BookingTickets(b) /\ kept \subseteq BookingTickets(b))
          => bookings'[b].subtotal = SumOfSnapshots(kept)]_vars


\* C12: a partial cancellation whose list covers every seat of the booking
\* removes the booking, its tickets and its seat assignments, and raises
\* available_seats by the number of seats the booking held.
CoversBooking(b, seats) ==
    /\ b \in DOMAIN bookings
    /\ seats # <<>>
    /\ BookingSeatAssignments(b) # {}
    /\ SeatNos(BookingSeatAssignments(b)) \subseteq Range(seats)

C12_CoveringPartialCancelIsFullCancel ==
    [][\A r \in CancelRequests :
          (CancelBooking(r[1], r[2], r[3]) /\ r[1] = ScheduleOwner
              /\ CoversBooking(r[2], r[3]))
          => /\ r[2] \notin DOMAIN bookings'
             /\ {t \in tickets' : t.booking_id = r[2]} = {}
             /\ {sa \in seat_assignments' : sa.booking_id = r[2]} = {}
             /\ schedule'.available_seats =
                   schedule.available_seats
                   + Cardinality(BookingSeatAssignments(r[2]))]_vars


\* C13: every cancel_booking raises available_seats by the number of seat
\* assignments it removes, clamped at total_seats, and available_seats never
\* exceeds total_seats.
RemovedAssignments == seat_assignments \ seat_assignments'

C13_CancelReleasesRemovedSeats ==
    [][/\ schedule'.available_seats <= schedule'.total_seats
       /\ \A r \in CancelRequests :
             CancelBooking(r[1], r[2], r[3])
             => schedule'.available_seats =
                   MinOf(schedule.total_seats,
                         schedule.available_seats + Cardinality(RemovedAssignments))]_vars


\* C14: every booking of channel AGENT names an agent that has an approved
\* connection with the owner.
C14_AgentBookingsHaveApprovedConnection ==
    \A b \in DOMAIN bookings :
        bookings[b].channel = "AGENT"
        => /\ bookings[b].agent_id \in DOMAIN connections
           /\ connections[bookings[b].agent_id].status = "approved"


\* C15: a request whose pickup or dropoff is not a destination of the
\* schedule, or whose pickup is not before its dropoff, is rejected and
\* persists nothing; every booking created has a route of the schedule with
\* the pickup before the dropoff.
ValidRoute(pickup, dropoff) ==
    /\ pickup \in DOMAIN schedule_destinations
    /\ dropoff \in DOMAIN schedule_destinations
    /\ schedule_destinations[pickup].schedule_id = ScheduleId
    /\ schedule_destinations[dropoff].schedule_id = ScheduleId
    /\ schedule_destinations[pickup].sequence_order
          < schedule_destinations[dropoff].sequence_order

C15_InvalidRouteIsRejected ==
    [][/\ \A b \in DOMAIN bookings' \ DOMAIN bookings :
             ValidRoute(bookings'[b].pickup_destination_id,
                        bookings'[b].dropoff_destination_id)
       /\ \A cr \in CallerRequests :
             (~ValidRoute(cr[2].pickup, cr[2].dropoff) /\ CreateBooking(cr[1], cr[2]))
             => /\ response' = "error"
                /\ UNCHANGED <<bookings, tickets, seat_assignments>>]_vars

\* A booking d1 -> d2 is there and the last request was rejected.
C15_Witness ==
    /\ response = "error"
    /\ \E b \in DOMAIN bookings :
          /\ bookings[b].pickup_destination_id = "d1"
          /\ bookings[b].dropoff_destination_id = "d2"
    /\ Cardinality(tickets) = 1


\* C16: on each status axis a booking never moves back: payment not from
\* PAID, FAILED or REFUNDED to PENDING or PARTIAL, fulfillment not from
\* CHECKED_IN, BOARDED or CANCELLED to UNCONFIRMED or CONFIRMED, finance not
\* from POSTED, ADJUSTED or REVERSED to UNPOSTED.
C16_StatusesOnlyMoveForward ==
    [][\A b \in DOMAIN bookings \cap DOMAIN bookings' :
          /\ ~(/\ bookings[b].payment_status \in {"PAID", "FAILED", "REFUNDED"}
               /\ bookings'[b].payment_status \in {"PENDING", "PARTIAL"})
          /\ ~(/\ bookings[b].fulfillment_status \in {"CHECKED_IN", "BOARDED", "CANCELLED"}
               /\ bookings'[b].fulfillment_status \in {"UNCONFIRMED", "CONFIRMED"})
          /\ ~(/\ bookings[b].finance_status \in {"POSTED", "ADJUSTED", "REVERSED"}
               /\ bookings'[b].finance_status = "UNPOSTED")]_vars


\* C17: every booking is created with payment_status PENDING,
\* fulfillment_status UNCONFIRMED and finance_status UNPOSTED.
C17_BookingsAreCreatedPending ==
    [][\A b \in DOMAIN bookings' \ DOMAIN bookings :
          /\ bookings'[b].payment_status = "PENDING"
          /\ bookings'[b].fulfillment_status = "UNCONFIRMED"
          /\ bookings'[b].finance_status = "UNPOSTED"]_vars


\* C18: after a successful issue_ticket the booking is PAID, CONFIRMED and
\* its finance_status is POSTED; the finance_status of a booking is POSTED
\* exactly when the ledger holds entries of its transactions.
C18_IssuedBookingIsPosted ==
    [][/\ (IssueStep /\ response' = "success")
          => /\ bookings'[IssuedBooking].payment_status = "PAID"
             /\ bookings'[IssuedBooking].fulfillment_status = "CONFIRMED"
             /\ bookings'[IssuedBooking].finance_status = "POSTED"
       /\ \A b \in DOMAIN bookings' :
             bookings'[b].finance_status = "POSTED"
             <=> \E i \in DOMAIN ledger' :
                    \E t \in DOMAIN transactions' :
                       /\ ledger'[i].transaction_id = t
                       /\ transactions'[t].booking_id = b]_vars


\* C19: a booking is created only for a ticket type that is active and has
\* an active ScheduleTicketType row of the schedule whose channel is the
\* booking's channel or BOTH (the owner's own channel is taken to match every
\* row); a request without one is rejected and persists nothing.
Sellable(ticket_type_id, channel) ==
    /\ ticket_type_id \in DOMAIN ticket_types
    /\ ticket_types[ticket_type_id].active
    /\ ticket_type_id \in DOMAIN schedule_ticket_types
    /\ schedule_ticket_types[ticket_type_id].active
    /\ \/ schedule_ticket_types[ticket_type_id].channel \in {channel, "BOTH"}
       \/ channel = "OWNER"

C19_UnsellableTicketTypeIsRejected ==
    [][\A cr \in CallerRequests :
          (~Sellable(cr[2].ticket_type_id, cr[2].channel) /\ CreateBooking(cr[1], cr[2]))
          => /\ response' = "error"
             /\ UNCHANGED <<bookings, tickets, seat_assignments>>]_vars


\* C20: issue_ticket on a booking without seat assignment fails and leaves
\* the bookings, the payment transactions, the ledger and the agent
\* connections as they were.
C20_IssueWithoutSeatsFails ==
    [][\A r \in IssueRequests :
          (/\ r[2] \in DOMAIN bookings
           /\ BookingSeatAssignments(r[2]) = {}
           /\ IssueTicket(r[1], r[2], r[3]))
          => /\ response' = "error"
             /\ UNCHANGED <<bookings, transactions, ledger, connections>>]_vars

\* A booking that has tickets and no seat assignment is still unpaid after a
\* rejected request, and nothing has been paid.
C20_Witness ==
    /\ response = "error"
    /\ transactions = <<>>
    /\ ledger = <<>>
    /\ \E b \in DOMAIN bookings :
          /\ BookingSeatAssignments(b) = {}
          /\ BookingTickets(b) # {}
          /\ bookings[b].payment_status = "PENDING"

\* C21: a cancel_booking of a whole booking that holds a TRAVELLED seat, or of
\* seats one of which is TRAVELLED, is rejected and removes no seat
\* assignment, ticket or booking, and releases no seat.
TravelledSeats(b) ==
    {sa.seat_no : sa \in {x \in BookingSeatAssignments(b) : x.travel_status = "TRAVELLED"}}

C21_TravelledSeatIsNotCancelled ==
    [][\A r \in CancelRequests :
          (/\ CancelBooking(r[1], r[2], r[3])
           /\ r[2] \in DOMAIN bookings
           /\ \/ r[3] = <<>> /\ TravelledSeats(r[2]) # {}
              \/ Range(r[3]) \cap TravelledSeats(r[2]) # {})
          => /\ response' = "error"
             /\ UNCHANGED <<bookings, tickets, seat_assignments, schedule>>]_vars

\* C22: a successful cancel_booking of a booking whose ledger entries have
\* been posted appends reversing entries to the ledger and keeps the entries
\* that were there.
PostedBooking(b) == b \in DOMAIN bookings /\ BookingLedgerEntries(b) # {}

C22_CancelAfterIssueReverses ==
    [][\A r \in CancelRequests :
          (/\ CancelBooking(r[1], r[2], r[3])
           /\ PostedBooking(r[2])
           /\ response' = "success")
          => /\ Len(ledger') > Len(ledger)
             /\ LedgerKept]_vars

\* C23: the commission ledger is append-only: every step keeps the entries
\* the ledger had, in their places and with their fields, and the ledger
\* never gets shorter.
C23_LedgerIsAppendOnly ==
    [][/\ Len(ledger') >= Len(ledger)
       /\ LedgerKept]_vars

\* The ledger holds the entries of a second issue after those of a first,
\* and those of a booking that has been deleted.
C23_Witness ==
    /\ Len(transactions) = 2
    /\ Len(ledger) >= 4
    /\ \E i \in DOMAIN ledger :
          transactions[ledger[i].transaction_id].booking_id \notin DOMAIN bookings

\* C24: mark_ticket_as_travelled sets TRAVELLED on the one seat assignment of
\* the ticket and leaves every other seat assignment, the bookings, the
\* tickets, the schedule's seats and the ledger as they were; for a ticket
\* without seat assignment it fails and changes nothing.
C24_MarkTravelledTouchesOneSeat ==
    [][\A r \in TravelRequests :
          MarkTravelled(r[1], r[2])
          => /\ UNCHANGED <<bookings, tickets, schedule, ledger, transactions, connections>>
             /\ \A sa \in seat_assignments : sa.ticket_id # r[2] => sa \in seat_assignments'
             /\ \A sa \in seat_assignments' : sa.ticket_id # r[2] => sa \in seat_assignments
             /\ response' = "success"
                => /\ Cardinality({sa \in seat_assignments : sa.ticket_id = r[2]}) = 1
                   /\ {sa \in seat_assignments' : sa.ticket_id = r[2]}
                         = {[sa EXCEPT !.travel_status = "TRAVELLED"] :
                               sa \in {x \in seat_assignments : x.ticket_id = r[2]}}
             /\ {sa \in seat_assignments : sa.ticket_id = r[2]} = {}
                => /\ response' = "error"
                   /\ UNCHANGED seat_assignments]_vars

\* One seat has travelled and another seat is still active.
C24_Witness ==
    /\ response = "success"
    /\ \E sa \in seat_assignments : sa.travel_status = "TRAVELLED"
    /\ \E sa \in seat_assignments : sa.travel_status = "ACTIVE"

\* C25: the seat map's blocked and booked lists are disjoint: booked holds
\* the seats with an active seat assignment, blocked the owner-blocked seats
\* that are not booked.
C25_SeatMapListsAreDisjoint ==
    /\ Range(get_seat_map.blocked) \cap Range(get_seat_map.booked) = {}
    /\ Range(get_seat_map.booked) = SeatNos(OccupyingAssignments)
    /\ Range(get_seat_map.blocked) = blocked \ SeatNos(OccupyingAssignments)

\* A seat that the owner has blocked is booked, and another blocked seat is
\* not.
C25_Witness ==
    /\ blocked \cap SeatNos(seat_assignments) # {}
    /\ blocked \ SeatNos(seat_assignments) # {}

\* C26: for every tax configuration, the subtotal calculated from the total
\* that was calculated from a subtotal S differs from S by at most 0.01.
C26_TaxRoundTrip ==
    [][\A r \in PreviewRequests :
          (/\ calculation.type = "subtotal"
           /\ r[2] = calculation.total_amount
           /\ r[3] = "total"
           /\ CalculateTaxPreview(r[1], r[2], r[3])
           /\ response' = "success")
          => /\ calculation'.subtotal - calculation.subtotal <= 1
             /\ calculation.subtotal - calculation'.subtotal <= 1]_vars

\* C27: calculate_tax is the rounding rule applied once to the sum of the
\* amounts of the active lines in stored order: base x value / 100 for a
\* percentage of the fare, (base + the tax of the earlier lines) x value / 100
\* for a percentage of the total, value for a fixed line; ROUND_UP is the
\* ceiling, ROUND_DOWN the truncation, ROUND_NEAREST the nearest hundredth
\* with a half going up.
ActiveLines(profile) == SelectSeq(profile.lines, LAMBDA line : line.active)

\* The exact sum of the first n active lines, in units of 1/Scale.
RECURSIVE SumOfLines(_, _, _)
SumOfLines(lines, n, base) ==
    IF n = 0 THEN 0
    ELSE LET before == SumOfLines(lines, n - 1, base)
             line == lines[n]
         IN before +
            (IF line.type = "FIXED" THEN line.value * Scale
             ELSE IF line.applies_to = "FARE" THEN (base * Scale * line.value) \div 100
             ELSE ((base * Scale + before) * line.value) \div 100)

Ceiling(x) == CHOOSE n \in 0..(x \div Scale + 1) : n * Scale >= x /\ (n - 1) * Scale < x
Truncation(x) == CHOOSE n \in 0..(x \div Scale + 1) : n * Scale <= x /\ (n + 1) * Scale > x
HalfUp(x) == Truncation(x + Scale \div 2)

ExpectedTax(profile, base) ==
    LET sum == SumOfLines(ActiveLines(profile), Len(ActiveLines(profile)), base)
    IN IF profile.rounding_rule = "ROUND_UP" THEN Ceiling(sum)
       ELSE IF profile.rounding_rule = "ROUND_DOWN" THEN Truncation(sum)
       ELSE HalfUp(sum)

C27_TaxIsRoundedOnce ==
    calculation.type = "tax"
    => calculation.tax = ExpectedTax(tax_profile, calculation.subtotal)

\* A tax of two active lines whose exact sum is not a whole number of
\* hundredths has been calculated.
C27_Witness ==
    /\ calculation.type = "tax"
    /\ Len(ActiveLines(tax_profile)) = 2
    /\ tax_profile.lines[2].applies_to = "TOTAL"
    /\ tax_profile.rounding_rule = "ROUND_DOWN"
    /\ SumOfLines(ActiveLines(tax_profile), 2, calculation.subtotal) % Scale # 0

\* C28: every booking code has 6 characters of an alphabet of exactly 32
\* symbols without O, I, 0 and 1, and no two stored bookings have the same
\* code, also when two requests generate their codes at the same time.
C28_BookingCodesAreUnique ==
    /\ Cardinality(Range(chars)) = 32
    /\ Range(chars) \cap {"O", "I", "0", "1"} = {}
    /\ \A i \in DOMAIN codes :
          /\ Len(codes[i]) = 6
          /\ Range(codes[i]) \subseteq Range(chars)
    /\ \A i \in DOMAIN codes, j \in DOMAIN codes : codes[i] = codes[j] => i = j

\* C29: a create_booking that fails, before or after the booking row was
\* flushed, leaves no booking, ticket or seat assignment behind and leaves
\* the available seats and the ledger as they were.
C29_FailedCreateLeavesNothing ==
    [][\A cr \in CallerRequests :
          (response' = "error" /\ CreateBooking(cr[1], cr[2]))
          => UNCHANGED <<bookings, tickets, seat_assignments, schedule, ledger,
                         transactions>>]_vars

\* A request with a null seat has failed after its rows were flushed, while
\* an earlier booking is stored.
C29_Witness ==
    /\ response = "error"
    /\ Cardinality(DOMAIN bookings) = 1
    /\ next_booking_id = 2
    /\ \A t \in tickets : t.seat_no # NoSeat
    /\ Cardinality(tickets) = 2

\* C30: the current_balance of a connection is changed by a successful
\* issue_ticket of a booking of channel AGENT and by no other step.
C30_OnlyAgentIssueChangesBalance ==
    [][(\E a \in DOMAIN connections :
           \/ a \notin DOMAIN connections'
           \/ connections'[a].current_balance # connections[a].current_balance)
       => /\ IssueStep
          /\ response' = "success"
          /\ bookings[IssuedBooking].channel = "AGENT"]_vars

\* The agent owes the owner for an issued booking, and the cancellation of
\* that booking has left the balance alone.
C30_Witness ==
    /\ connections["a1"].current_balance > 0
    /\ 1 \notin DOMAIN bookings
    /\ response = "success"

\* C31: a failure of the SMS sender during the creation of a booking does not
\* change the outcome: for a request the service accepts (ticket types that
\* are enabled on the schedule), the step in which the sender fails ends with
\* the booking stored, one ticket per requested seat, the seats assigned and
\* the successful booking result.
ServiceAccepts(data) ==
    /\ data.ticket_type_id \in DOMAIN ticket_types
    /\ validate_ticket_types({data.ticket_type_id})
    /\ data.seats # {} /\ NoSeat \notin data.seats

ExpectedUnitPrice(ticket_type_id) ==
    ticket_types[ticket_type_id].base_price
      + (IF ticket_type_id \in DOMAIN schedule_ticket_types
         THEN schedule_ticket_types[ticket_type_id].surcharge
              - schedule_ticket_types[ticket_type_id].discount
         ELSE 0)

C32_PricingFormula ==
    [][next_booking_id' = next_booking_id + 1 =>
         LET b == next_booking_id
             booking == bookings'[b]
             unit == ExpectedUnitPrice(booking.ticket_type_id)
             booked == {t \in tickets' : t.booking_id = b}
             n == Cardinality({sa \in seat_assignments' : sa.booking_id = b})
         IN /\ n >= 1
            /\ Cardinality(booked) = n
            /\ booking.subtotal = unit * n
            /\ \A t \in booked : t.fare_base_price_snapshot = unit
            /\ booking.ticket_type_id \in enabled_types =>
                  calculate_booking_price(booking.ticket_type_id, n,
                      booking.channel, app_settings).subtotal = unit * n]_vars

C32_Witness ==
    \E b \in DOMAIN bookings :
        /\ bookings[b].subtotal = 2 * (100 + 20 - 10)
        /\ Cardinality(BookingTickets(b)) = 2
        /\ \A t \in BookingTickets(b) : t.fare_base_price_snapshot = 100 + 20 - 10

\* C33: the subtotal calculated from a total T is T when no inclusive tax is
\* in effect (the configuration is switched off, or no enabled tax of it is
\* inclusive), and otherwise (T - the enabled inclusive flat taxes) divided by
\* (1 + the sum of the enabled inclusive percentage rates), to the nearest
\* 0.01; one inclusive tax of 8% on 108.00 gives 100.00.
InEffect(config) ==
    {i \in DOMAIN config.taxes :
        config.enabled /\ config.taxes[i].enabled /\ config.taxes[i].inclusive}

RECURSIVE RateSum(_, _, _)
RateSum(config, indices, type) ==
    IF indices = {} THEN 0
    ELSE LET i == CHOOSE j \in indices : TRUE
         IN (IF config.taxes[i].type = type THEN config.taxes[i].rate ELSE 0)
            + RateSum(config, indices \ {i}, type)

\* subtotal is the quotient numerator / denominator to the nearest unit.
IsNearest(subtotal, numerator, denominator) ==
    /\ 2 * (numerator - subtotal * denominator) <= denominator
    /\ 2 * (subtotal * denominator - numerator) <= denominator

C33_SubtotalFromTotal ==
    calculation.type = "total" =>
        LET config == tax_configurations
            T == calculation.total_amount
        IN IF InEffect(config) = {} THEN calculation.subtotal = T
           ELSE IsNearest(calculation.subtotal,
                          100 * (T - 100 * RateSum(config, InEffect(config), "flat")),
                          100 + RateSum(config, InEffect(config), "percentage"))

C33_Witness ==
    /\ calculation = [type |-> "total", subtotal |-> 10000, total_amount |-> 10800,
                      tax |-> 0]
    /\ Cardinality(InEffect(tax_configurations)) = 1
    /\ RateSum(tax_configurations, InEffect(tax_configurations), "percentage") = 8
    /\ Len(tax_configurations.taxes) = 2

\* C34: once a ticket has been issued, by requests one after the other or by
\* two in flight at once, exactly one active platform-settings record exists,
\* and the commission of every platform credit in the ledger is the rate of
\* that record (10 for the default record issue_ticket creates).
C34_OneActiveSettingsRecord ==
    Len(transactions) >= 1 =>
        /\ Cardinality(active_settings(app_settings)) = 1
        /\ \A i \in app_owner_entries(ledger) :
              ledger[i].commission_amount
                 = app_settings[Min(active_settings(app_settings))].commission_rate

\* C35: when two issue_ticket requests for two different bookings have run at
\* once and both have committed, no posting is lost: the platform's latest
\* running balance is its balance before (0, the ledger was empty) plus both
\* commissions, and the owner's latest running balance is minus both debits.
\* Stated for bookings without agent accounting, whose issue adds the two
\* commission entries only.
RECURSIVE CommissionSum(_, _)
CommissionSum(entries, indices) ==
    IF indices = {} THEN 0
    ELSE LET i == CHOOSE j \in indices : TRUE
         IN entries[i].commission_amount + CommissionSum(entries, indices \ {i})

C35_NoPostingIsLost ==
    (/\ Len(sessions) = 2
     /\ \A p \in DOMAIN sessions :
           /\ sessions[p].pc = "done"
           /\ sessions[p].response = "success"
           /\ ~has_connection(bookings[sessions[p].booking_id])
     /\ sessions[1].booking_id # sessions[2].booking_id)
    => /\ latest_running_balance(ledger, app_owner_entries(ledger))
             = CommissionSum(ledger, app_owner_entries(ledger))
       /\ Cardinality(app_owner_entries(ledger)) = 2
       /\ latest_running_balance(ledger, owner_entries(ledger, ScheduleOwner))
             = 0 - CommissionSum(ledger, owner_entries(ledger, ScheduleOwner))

\* C36: after every step, every BookingTicket and every SeatAssignment refers
\* to an existing booking and every SeatAssignment to an existing ticket of
\* its booking; and after a partial cancellation that leaves the booking, the
\* booking has as many tickets as seat assignments, the tickets removed being
\* those of the seats removed.
ReferencesHold(stored, rows, assignments) ==
    /\ \A t \in rows : t.booking_id \in DOMAIN stored
    /\ \A sa \in assignments :
          /\ sa.booking_id \in DOMAIN stored
          /\ \E t \in rows : t.id = sa.ticket_id /\ t.booking_id = sa.booking_id

C37_NeverOversold ==
    /\ schedule.available_seats >= 0
    /\ Cardinality(OccupyingAssignments) <= schedule.total_seats - Cardinality(blocked)

\* C38: the seats of a booking are released at most once.  A cancel by the
\* service of a booking that is CANCELLED, and a cancel of a booking that has
\* been deleted, leave available_seats as it was; and after a successful
\* cancel of a whole booking the seat map reports none of the seats the
\* booking held as booked.
C38_SeatsReleasedOnce ==
    [][/\ \A b \in BookingIds :
             (/\ b \in DOMAIN bookings
              /\ bookings[b].fulfillment_status = "CANCELLED"
              /\ ServiceCancelBooking(b))
             => schedule'.available_seats = schedule.available_seats
       /\ \A r \in CancelRequests :
             (r[2] \notin DOMAIN bookings /\ CancelBooking(r[1], r[2], r[3]))
             => schedule'.available_seats = schedule.available_seats
       /\ \A r \in CancelRequests :
             (/\ r[2] \in DOMAIN bookings
              /\ r[2] \notin DOMAIN bookings'
              /\ CancelBooking(r[1], r[2], r[3])
              /\ response' = "success")
             => SeatNos(BookingSeatAssignments(r[2])) \cap Range(get_seat_map'.booked)
                   = {}]_vars

\* C39: an edit of a schedule that has bookings leaves available_seats =
\* total_seats - the blocked seats - the seat assignments that occupy a seat,
\* and leaves the bookings and their seat assignments as they were.
C39_EditKeepsInventory ==
    [][\A r \in EditRequests :
          (/\ DOMAIN bookings # {}
           /\ EditSchedule(r[1], r[2], r[3][1], r[3][2])
           /\ response' = "success")
          => /\ schedule'.available_seats =
                   schedule'.total_seats - Cardinality(blocked')
                   - Cardinality({sa \in seat_assignments' :
                                     sa.travel_status # "CANCELLED"})
             /\ bookings' = bookings
             /\ seat_assignments' = seat_assignments]_vars

\* C40: an issue_ticket increases the current_balance of a connection only if
\* the connection is approved when the ticket is issued, so a pending or a
\* rejected connection is never charged, and the issue of a booking of channel
\* AGENT whose agent has no approved connection with the owner does not
\* succeed with two ledger entries only.
UsableConnection(booking) ==
    /\ booking.agent_id \in DOMAIN connections
    /\ connections[booking.agent_id].status = "approved"

C40_OnlyApprovedConnectionsCharged ==
    [][IssueStep
       => /\ \A a \in DOMAIN connections :
                connections'[a].current_balance > connections[a].current_balance
                => connections[a].status = "approved"
          /\ (/\ bookings[IssuedBooking].channel = "AGENT"
              /\ ~UsableConnection(bookings[IssuedBooking]))
             => ~(/\ response' = "success"
                  /\ Len(NewLedgerEntries) = 2)]_vars

=============================================================================
